---- MODULE Spec2Model ----
(***************************************************************************)
(* Model of src/ps5.js: the groupBy utility, the Datamuse request wiring,  *)
(* the two result renderers, the saved-words list and the event handlers.  *)
(*                                                                         *)
(* JavaScript values are modelled as follows.                              *)
(*   - a JS primitive used as a group key is a record [t, n, s]: t is the  *)
(*     typeof tag, n the integer value of a number, s the code units of a  *)
(*     string (a sequence of one-character strings);                       *)
(*   - a Map is the sequence of its [key, value] entries in insertion      *)
(*     order; an ordinary object is the sequence of its [name, value]      *)
(*     properties in creation order, enumerated by OwnKeys;                *)
(*   - text shown on the page is a TLA+ string.                            *)
(***************************************************************************)
EXTENDS Integers, Sequences, FiniteSets, Bags, TLC

VARIABLES
    wordInput,        \* wordInput.value, the code units typed in the field
    wordOutput,       \* #word_output: [html, children]
    savedWords,       \* #saved_words innerHTML
    savedWordsArray,  \* the module-level array of saved words
    word,             \* the implicit global `word` the renderers assign
    pending,          \* the fetches in flight, a bag of [callback, url]
    errors,           \* number of console.error calls so far
    shown,            \* the fetch that last resolved since the last request
                      \* was made: [callback, url, data, raced]; raced when
                      \* another had resolved before it
    gbObjects,        \* groupBy under test: the objects argument
    gbProperty,       \* groupBy under test: the property argument
    gbResult          \* groupBy under test: [done, value]

vars == <<wordInput, wordOutput, savedWords, savedWordsArray, word, pending,
          errors, shown, gbObjects, gbProperty, gbResult>>

pageVars == <<wordInput, wordOutput, savedWords, savedWordsArray, word,
              pending, errors, shown>>

gbVars == <<gbObjects, gbProperty, gbResult>>

-----------------------------------------------------------------------------
(* Bounds of the model.                                                    *)

MaxObjects == 3      \* longest objects array handed to groupBy under test
MaxResults == 3      \* longest response array handed to a renderer under test
MaxPending == 2      \* most fetches in flight at once
MaxSaved == 2        \* most words saved in one session
MaxErrors == 1       \* most failed fetches in one session

-----------------------------------------------------------------------------
(* JavaScript strings and primitives.                                      *)

\* The characters of the model's strings: space, "&", "-", the digits and
\* the lower-case letters, each with its UTF-16 code unit.
DigitChars == <<"0", "1", "2", "3", "4", "5", "6", "7", "8", "9">>

LetterChars ==
    <<"a", "b", "c", "d", "e", "f", "g", "h", "i", "j", "k", "l", "m", "n",
      "o", "p", "q", "r", "s", "t", "u", "v", "w", "x", "y", "z">>

IndexOf(seq, c) == CHOOSE i \in 1..Len(seq) : seq[i] = c

IsDigit(c) == \E i \in 1..Len(DigitChars) : DigitChars[i] = c

IsLetter(c) == \E i \in 1..Len(LetterChars) : LetterChars[i] = c

\* The code unit of a character.
Code(c) ==
    CASE c = " " -> 32
      [] c = "&" -> 38
      [] c = "-" -> 45
      [] IsDigit(c) -> 47 + IndexOf(DigitChars, c)
      [] IsLetter(c) -> 96 + IndexOf(LetterChars, c)

\* The text of a sequence of code units.
RECURSIVE Text(_)
Text(cs) == IF cs = <<>> THEN "" ELSE Head(cs) \o Text(Tail(cs))

Radix == Len(DigitChars)

RECURSIVE Digits(_)
Digits(n) ==
    IF n < Radix THEN <<DigitChars[n + 1]>>
    ELSE Digits(n \div Radix) \o <<DigitChars[(n % Radix) + 1]>>

Num(n) == [t |-> "number", n |-> n, s |-> <<>>]
Str(cs) == [t |-> "string", n |-> 0, s |-> cs]
Undefined == [t |-> "undefined", n |-> 0, s |-> <<>>]

\* ECMAScript JSToString on the primitives of the model.
JSToString(v) ==
    CASE v.t = "string" -> v.s
      [] v.t = "number" -> IF v.n < 0 THEN <<"-">> \o Digits(0 - v.n)
                           ELSE Digits(v.n)
      [] OTHER -> <<"u", "n", "d", "e", "f", "i", "n", "e", "d">>

\* a < b for strings: comparison by code units, a proper prefix first.
RECURSIVE StringLess(_, _)
StringLess(a, b) ==
    IF b = <<>> THEN FALSE
    ELSE IF a = <<>> THEN TRUE
    ELSE IF Head(a) = Head(b) THEN StringLess(Tail(a), Tail(b))
    ELSE Code(Head(a)) < Code(Head(b))

\* The comparison Array.prototype.sort uses without a comparator: undefined
\* sorts last, everything else by its string form.
SortLess(x, y) ==
    IF x.t = "undefined" THEN FALSE
    ELSE IF y.t = "undefined" THEN TRUE
    ELSE StringLess(JSToString(x), JSToString(y))

\* sorted with x put in, after every element that is not greater than x.
RECURSIVE SortInsert(_, _)
SortInsert(sorted, x) ==
    IF sorted = <<>> THEN <<x>>
    ELSE IF SortLess(x, Head(sorted)) THEN <<x>> \o sorted
    ELSE <<Head(sorted)>> \o SortInsert(Tail(sorted), x)

\* Array.prototype.sort(): a stable sort by SortLess.
RECURSIVE ArraySort(_)
ArraySort(a) ==
    IF a = <<>> THEN <<>>
    ELSE SortInsert(ArraySort(SubSeq(a, 1, Len(a) - 1)), a[Len(a)])

-----------------------------------------------------------------------------
(* Map and ordinary objects.                                               *)

MapHas(m, k) == \E i \in 1..Len(m) : m[i].key = k

MapGet(m, k) == m[CHOOSE i \in 1..Len(m) : m[i].key = k].value

\* Map.prototype.set: a new key goes last, a known key keeps its place.
MapSet(m, k, v) ==
    IF MapHas(m, k)
    THEN [i \in 1..Len(m) |-> IF m[i].key = k THEN [key |-> k, value |-> v]
                              ELSE m[i]]
    ELSE Append(m, [key |-> k, value |-> v])

MapKeys(m) == [i \in 1..Len(m) |-> m[i].key]

ObjHas(o, name) == \E i \in 1..Len(o) : o[i].name = name

ObjGet(o, name) == o[CHOOSE i \in 1..Len(o) : o[i].name = name].value

\* o[name] = v: a new property is created last, a known one is overwritten.
ObjSet(o, name, v) ==
    IF ObjHas(o, name)
    THEN [i \in 1..Len(o) |-> IF o[i].name = name
                              THEN [name |-> name, value |-> v] ELSE o[i]]
    ELSE Append(o, [name |-> name, value |-> v])

RECURSIVE ParseDigits(_, _)
ParseDigits(cs, acc) ==
    IF cs = <<>> THEN acc
    ELSE ParseDigits(Tail(cs),
                     acc * Radix + (IndexOf(DigitChars, Head(cs)) - 1))

\* A property name is an array index when it is the canonical decimal form
\* of an integer from 0 to 2^32 - 2. Every canonical decimal of fewer than
\* ten digits is one; the names of the model are shorter than that.
IsArrayIndex(name) ==
    /\ name # <<>>
    /\ Len(name) < Radix
    /\ \A i \in 1..Len(name) : IsDigit(name[i])
    /\ (Len(name) > 1 => name[1] # "0")

RECURSIVE NumericInsert(_, _)
NumericInsert(sorted, name) ==
    IF sorted = <<>> THEN <<name>>
    ELSE IF ParseDigits(name, 0) < ParseDigits(Head(sorted), 0)
         THEN <<name>> \o sorted
    ELSE <<Head(sorted)>> \o NumericInsert(Tail(sorted), name)

RECURSIVE NumericSort(_)
NumericSort(names) ==
    IF names = <<>> THEN <<>>
    ELSE NumericInsert(NumericSort(Tail(names)), Head(names))

IsIndexEntry(e) == IsArrayIndex(e.name)

IsNameEntry(e) == ~IsArrayIndex(e.name)

EntryNames(o) == [i \in 1..Len(o) |-> o[i].name]

\* The order in which for-in and Object.keys enumerate an ordinary object:
\* array indices in ascending numeric order, then the other names in the
\* order of their creation.
OwnKeys(o) ==
    NumericSort(EntryNames(SelectSeq(o, IsIndexEntry)))
        \o EntryNames(SelectSeq(o, IsNameEntry))

-----------------------------------------------------------------------------
(* groupBy.                                                                *)

\* obj[name]: undefined when the object has no such property.
GetProp(obj, name) == IF name \in DOMAIN obj THEN obj[name] ELSE Undefined

\* The function selectors handed to groupBy: (o) => String(o.n).
CallFunction(name, obj) ==
    CASE name = "stringOfN" -> Str(JSToString(GetProp(obj, "n")))

\* The selector after the conversion of a property name to a function.
PropertyOf(property, obj) ==
    IF property.type # "function" THEN GetProp(obj, property.name)
    ELSE CallFunction(property.name, obj)

\* The loop that fills the Map: one list per group name, in first-seen order.
RECURSIVE GroupObjects(_, _, _)
GroupObjects(objects, property, groupedObjects) ==
    IF objects = <<>> THEN groupedObjects
    ELSE LET object == Head(objects)
             groupName == PropertyOf(property, object)
             ensured == IF ~MapHas(groupedObjects, groupName)
                        THEN MapSet(groupedObjects, groupName, <<>>)
                        ELSE groupedObjects
             pushed == MapSet(ensured, groupName,
                              Append(MapGet(ensured, groupName), object))
         IN GroupObjects(Tail(objects), property, pushed)

\* The loop that copies the Map into an object, key by key.
RECURSIVE CopyGroups(_, _, _)
CopyGroups(keys, groupedObjects, result) ==
    IF keys = <<>> THEN result
    ELSE CopyGroups(Tail(keys), groupedObjects,
                    ObjSet(result, JSToString(Head(keys)),
                           MapGet(groupedObjects, Head(keys))))

\* groupBy with the group replaced, not extended, by each object.
RECURSIVE GroupLast(_, _, _)
GroupLast(objects, property, groupedObjects) ==
    IF objects = <<>> THEN groupedObjects
    ELSE GroupLast(Tail(objects), property,
                   MapSet(groupedObjects, PropertyOf(property, Head(objects)),
                          <<Head(objects)>>))

groupByLast(objects, property) ==
    LET groupedObjects == GroupLast(objects, property, <<>>)
    IN CopyGroups(ArraySort(MapKeys(groupedObjects)), groupedObjects, <<>>)

groupBy(objects, property) ==
    LET groupedObjects == GroupObjects(objects, property, <<>>)
    IN CopyGroups(ArraySort(MapKeys(groupedObjects)), groupedObjects, <<>>)

-----------------------------------------------------------------------------
(* groupBy on bounded inputs.                                              *)

GbKeys ==
    {Num(1), Num(2), Num(10), Num(0 - 1), Str(<<"1">>), Str(<<"z">>),
     Undefined}

GbItems == [w : {Str(<<"a">>), Str(<<"b">>)}, n : GbKeys]

GbProperties ==
    {[type |-> "string", name |-> "n"],
     [type |-> "string", name |-> "w"],
     [type |-> "string", name |-> "missing"],
     [type |-> "function", name |-> "stringOfN"]}

SeqsUpTo(S, max) == UNION {[1..len -> S] : len \in 0..max}

NoResult == [done |-> FALSE, value |-> <<>>]

GbInit ==
    /\ gbObjects \in SeqsUpTo(GbItems, MaxObjects)
    /\ gbProperty \in GbProperties
    /\ gbResult = NoResult

CallGroupBy ==
    /\ ~gbResult.done
    /\ gbResult' = [done |-> TRUE, value |-> groupBy(gbObjects, gbProperty)]
    /\ UNCHANGED <<gbObjects, gbProperty>>

-----------------------------------------------------------------------------
(* The page: DOM nodes, the word service, the saved words.                 *)

\* A DOM node: its tag, the markup assigned to innerHTML, the nodes appended
\* to it, and the click listeners added to it (each the word it closed over).
Node(tag, html, children, listeners) ==
    [tag |-> tag, html |-> html, children |-> children,
     listeners |-> listeners]

\* What the word field can hold: nothing, as when the page loads, or a word.
InputValues == {<<>>, <<"t", "o", "p", " ", "h", "a", "t">>}

Keys == {"Enter", "a"}

\* What the word service can answer with.
WordResults ==
    {[word |-> "light", numSyllables |-> Num(1)],
     [word |-> "bright", numSyllables |-> Num(1)],
     [word |-> "delight", numSyllables |-> Num(2)],
     [word |-> "candlelighter", numSyllables |-> Num(10)],
     [word |-> "tonight", numSyllables |-> Undefined]}

Responses == SeqsUpTo(WordResults, MaxResults)

\* The answers of the word service in a page session.
PageResponses ==
    {<<>>,
     <<[word |-> "delight", numSyllables |-> Num(2)],
       [word |-> "light", numSyllables |-> Num(1)]>>,
     <<[word |-> "candlelighter", numSyllables |-> Num(10)],
       [word |-> "delight", numSyllables |-> Num(2)]>>}

HexChars ==
    <<"0", "1", "2", "3", "4", "5", "6", "7", "8", "9", "A", "B", "C", "D",
      "E", "F">>

\* The application/x-www-form-urlencoded form of one character, as
\* URLSearchParams.toString() writes it.
UrlEncodeChar(c) ==
    IF c = " " THEN "+"
    ELSE IF IsDigit(c) \/ IsLetter(c) \/ c = "-" THEN c
    ELSE "%" \o HexChars[(Code(c) \div Len(HexChars)) + 1]
             \o HexChars[(Code(c) % Len(HexChars)) + 1]

RECURSIVE UrlEncode(_)
UrlEncode(cs) ==
    IF cs = <<>> THEN "" ELSE UrlEncodeChar(Head(cs)) \o UrlEncode(Tail(cs))

\* The parameter is not read: the URL is built from the field's value.
getDatamuseRhymeUrl(rel_rhy) ==
    "https://api.datamuse.com/words?" \o "rel_rhy" \o "=" \o UrlEncode(wordInput)

getDatamuseSimilarToUrl(ml) ==
    "https://api.datamuse.com/words?" \o "ml" \o "=" \o UrlEncode(wordInput)

\* Array.prototype.join.
RECURSIVE Join(_, _)
Join(array, separator) ==
    IF array = <<>> THEN ""
    ELSE IF Len(array) = 1 THEN array[1]
    ELSE Join(SubSeq(array, 1, Len(array) - 1), separator)
             \o separator \o array[Len(array)]

\* addToSavedWords with the markup written before the push.
addToSavedWordsStale(w) ==
    [savedWordsArray |-> Append(savedWordsArray, w),
     savedWords |-> Join(savedWordsArray, ", ")]

\* The array and the #saved_words markup after addToSavedWords(w).
addToSavedWords(w) ==
    LET pushed == Append(savedWordsArray, w)
    IN [savedWordsArray |-> pushed, savedWords |-> Join(pushed, ", ")]

\* The button generatesavedbtn(w) returns: its listener closes over the
\* parameter w.
generatesavedbtn(w) == Node("button", "(Save)", <<>>, <<[word |-> w]>>)

\* A listener that reads the global `word` when the click happens.
ClickListenerGlobal(btn) == word

\* The word the click listener of a save button hands to addToSavedWords.
ClickListener(btn) == btn.listeners[1].word

\* The <li> of one result: the word, a space, the save button.
ResultItem(w) == Node("li", w \o " ", <<generatesavedbtn(w)>>, <<>>)

ResultItems(results) ==
    [i \in 1..Len(results) |-> ResultItem(results[i].word)]

\* The nodes appended to the <div> for the groups named by keys, in order:
\* an <h3> and a <ul> per group.
RECURSIVE RhymeSections(_, _)
RhymeSections(data, keys) ==
    IF keys = <<>> THEN <<>>
    ELSE LET syllable == Head(keys)
         IN <<Node("h3", "Syllables: " \o Text(syllable), <<>>, <<>>),
              Node("ul", "", ResultItems(ObjGet(data, syllable)), <<>>)>>
                \o RhymeSections(data, Tail(keys))

Loading == Node("div", "<h2>...loading<h2>", <<>>, <<>>)

NoResults == Node("div", "(no results)", <<>>, <<>>)

\* #word_output and the global `word` after showRhymes(data).
showRhymes(data) ==
    IF Len(data) = 0 THEN [wordOutput |-> NoResults, word |-> word]
    ELSE LET grouped == groupBy(data, [type |-> "string",
                                       name |-> "numSyllables"])
             keys == OwnKeys(grouped)
             outputs == Node("div", "", RhymeSections(grouped, keys), <<>>)
             lastGroup == ObjGet(grouped, keys[Len(keys)])
         IN [wordOutput |->
                 Node("div",
                      "<h2>Words that rhyme with " \o Text(wordInput) \o "<h2>",
                      <<outputs>>, <<>>),
             word |-> lastGroup[Len(lastGroup)].word]

\* showSynonyms without the test for an empty response.
showSynonymsUnchecked(data) ==
    [wordOutput |->
         Node("div",
              "<h2>Words with a similar meaning to " \o Text(wordInput)
                  \o "<h2>",
              <<Node("ul", "", ResultItems(data), <<>>)>>, <<>>),
     word |-> IF data = <<>> THEN word ELSE data[Len(data)].word]

\* #word_output and the global `word` after showSynonyms(data).
showSynonyms(data) ==
    IF Len(data) = 0 THEN [wordOutput |-> NoResults, word |-> word]
    ELSE LET outputs == Node("ul", "", ResultItems(data), <<>>)
         IN [wordOutput |->
                 Node("div",
                      "<h2>Words with a similar meaning to "
                          \o Text(wordInput) \o "<h2>",
                      <<outputs>>, <<>>),
             word |-> data[Len(data)].word]

\* The <li> nodes under a node, in document order.
RECURSIVE ListItems(_)
RECURSIVE ListItemsOf(_)
ListItemsOf(nodes) ==
    IF nodes = <<>> THEN <<>>
    ELSE ListItems(Head(nodes)) \o ListItemsOf(Tail(nodes))
ListItems(node) ==
    IF node.tag = "li" THEN <<node>> ELSE ListItemsOf(node.children)

NoWord == "undefined"

NotShown == [callback |-> "none", url |-> "", data |-> <<>>, raced |-> FALSE]

Blank == Node("div", "", <<>>, <<>>)

PageInit ==
    /\ wordInput = <<>>
    /\ wordOutput = Blank
    /\ savedWords = "(none)"
    /\ savedWordsArray = <<>>
    /\ word = NoWord
    /\ pending = EmptyBag
    /\ errors = 0
    /\ shown = NotShown

GbIdle ==
    /\ gbObjects = <<>>
    /\ gbProperty = [type |-> "string", name |-> "numSyllables"]
    /\ gbResult = NoResult

Init == PageInit /\ GbIdle

-----------------------------------------------------------------------------
(* The handlers.                                                           *)

\* datamuseRequest(url, callback) up to the fetch: the request is in flight.
datamuseRequest(url, callback) ==
    pending' = pending (+) SetToBag({[callback |-> callback, url |-> url]})

\* The user types in the word field.
EditInput(value) ==
    /\ value # wordInput
    /\ wordInput' = value
    /\ UNCHANGED <<wordOutput, savedWords, savedWordsArray, word, pending,
                   errors, shown, gbVars>>

\* A click on #show_rhymes that also empties the saved words.
ShowRhymesClickResets ==
    /\ BagCardinality(pending) < MaxPending
    /\ wordOutput' = Loading
    /\ shown' = NotShown
    /\ datamuseRequest(getDatamuseRhymeUrl(wordInput), "showRhymes")
    /\ savedWordsArray' = <<>>
    /\ savedWords' = "(none)"
    /\ UNCHANGED <<wordInput, word, errors, gbVars>>

\* Click on #show_rhymes.
ShowRhymesClick ==
    /\ BagCardinality(pending) < MaxPending
    /\ wordOutput' = Loading
    /\ shown' = NotShown
    /\ datamuseRequest(getDatamuseRhymeUrl(wordInput), "showRhymes")
    /\ UNCHANGED <<wordInput, savedWords, savedWordsArray, word, errors,
                   gbVars>>

\* A keypress in the word field: Enter asks for rhymes, any other key does
\* nothing here.
WordInputKeypress(key) ==
    IF key = "Enter"
    THEN /\ BagCardinality(pending) < MaxPending
         /\ wordOutput' = Loading
         /\ shown' = NotShown
         /\ datamuseRequest(getDatamuseRhymeUrl(wordInput), "showRhymes")
         /\ UNCHANGED <<wordInput, savedWords, savedWordsArray, word, errors,
                        gbVars>>
    ELSE UNCHANGED vars

\* Click on #show_synonyms.
ShowSynonymsClick ==
    /\ BagCardinality(pending) < MaxPending
    /\ wordOutput' = Loading
    /\ shown' = NotShown
    /\ datamuseRequest(getDatamuseSimilarToUrl(wordInput), "showSynonyms")
    /\ UNCHANGED <<wordInput, savedWords, savedWordsArray, word, errors,
                   gbVars>>

\* A resolution that leaves a render already made in place.
DatamuseResolveFirstWins(request, data) ==
    /\ BagIn(request, pending)
    /\ LET after == IF shown # NotShown
                    THEN [wordOutput |-> wordOutput, word |-> word]
                    ELSE IF request.callback = "showRhymes"
                    THEN showRhymes(data)
                    ELSE showSynonyms(data)
       IN /\ wordOutput' = after.wordOutput
          /\ word' = after.word
    /\ shown' = [callback |-> request.callback, url |-> request.url,
                 data |-> data, raced |-> shown # NotShown]
    /\ pending' = pending (-) SetToBag({request})
    /\ UNCHANGED <<wordInput, savedWords, savedWordsArray, errors, gbVars>>

\* The fetch of request resolves and its body parses to data: the callback
\* runs with it.
DatamuseResolve(request, data) ==
    /\ BagIn(request, pending)
    /\ LET after == IF request.callback = "showRhymes" THEN showRhymes(data)
                    ELSE showSynonyms(data)
       IN /\ wordOutput' = after.wordOutput
          /\ word' = after.word
    /\ shown' = [callback |-> request.callback, url |-> request.url,
                 data |-> data, raced |-> shown # NotShown]
    /\ pending' = pending (-) SetToBag({request})
    /\ UNCHANGED <<wordInput, savedWords, savedWordsArray, errors, gbVars>>

\* A failure handler that also runs the callback, with no results.
DatamuseFailCallsBack(request) ==
    /\ BagIn(request, pending)
    /\ errors < MaxErrors
    /\ errors' = errors + 1
    /\ wordOutput' = NoResults
    /\ shown' = [callback |-> request.callback, url |-> request.url,
                 data |-> <<>>, raced |-> shown # NotShown]
    /\ pending' = pending (-) SetToBag({request})
    /\ UNCHANGED <<wordInput, savedWords, savedWordsArray, word, gbVars>>

\* The fetch of request rejects, or its body does not parse: the error is
\* logged and nothing else happens.
DatamuseFail(request) ==
    /\ BagIn(request, pending)
    /\ errors < MaxErrors
    /\ errors' = errors + 1
    /\ pending' = pending (-) SetToBag({request})
    /\ UNCHANGED <<wordInput, wordOutput, savedWords, savedWordsArray, word,
                   shown, gbVars>>

\* Click on the save button of the j-th result shown.
SaveClick(j) ==
    /\ j \in 1..Len(ListItems(wordOutput))
    /\ Len(savedWordsArray) < MaxSaved
    /\ LET btn == ListItems(wordOutput)[j].children[1]
           after == addToSavedWords(ClickListener(btn))
       IN /\ savedWordsArray' = after.savedWordsArray
          /\ savedWords' = after.savedWords
    /\ UNCHANGED <<wordInput, wordOutput, word, pending, errors, shown,
                   gbVars>>

Next ==
    \/ \E value \in InputValues : EditInput(value)
    \/ ShowRhymesClick
    \/ \E key \in Keys : WordInputKeypress(key)
    \/ ShowSynonymsClick
    \/ \E request \in BagToSet(pending), data \in PageResponses :
           DatamuseResolve(request, data)
    \/ \E request \in BagToSet(pending) : DatamuseFail(request)
    \/ \E j \in 1..Len(ListItems(wordOutput)) : SaveClick(j)

Spec == Init /\ [][Next]_vars

\* groupBy applied to every bounded input.
NextGroupBy == CallGroupBy /\ UNCHANGED pageVars

InitGroupBy == PageInit /\ GbInit

SpecGroupBy == InitGroupBy /\ [][NextGroupBy]_vars

\* A renderer applied to every bounded response: one request is in flight,
\* made with any value in the field, and it resolves.
Callbacks == {"showRhymes", "showSynonyms"}

RenderInit ==
    /\ wordInput \in InputValues
    /\ wordOutput = Loading
    /\ savedWords = "(none)"
    /\ savedWordsArray = <<>>
    /\ word = NoWord
    /\ \E callback \in Callbacks, value \in InputValues :
           pending = SetToBag({[callback |-> callback,
                                url |-> "https://api.datamuse.com/words?"
                                    \o (IF callback = "showRhymes"
                                        THEN "rel_rhy" ELSE "ml")
                                    \o "=" \o UrlEncode(value)]})
    /\ errors = 0
    /\ shown = NotShown

NextRender ==
    \E request \in BagToSet(pending), data \in Responses :
        DatamuseResolve(request, data)

InitRender == RenderInit /\ GbIdle

SpecRender == InitRender /\ [][NextRender]_vars

-----------------------------------------------------------------------------
(* Properties of groupBy (checked under SpecGroupBy).                      *)

RECURSIVE SumLen(_)
SumLen(o) == IF o = <<>> THEN 0 ELSE Len(Head(o).value) + SumLen(Tail(o))

\* C1: every input item is in exactly one group of the result, the group
\* stored under its key, and every group holds the items of its key in
\* their input order: nothing is lost, duplicated or moved, whatever the
\* primitive types of the keys.
GroupByPartitionsInput ==
    gbResult.done =>
        LET result == gbResult.value
        IN /\ \A i \in 1..Len(gbObjects) :
                  LET k == PropertyOf(gbProperty, gbObjects[i])
                      HasKey(x) == PropertyOf(gbProperty, x) = k
                  IN /\ ObjHas(result, JSToString(k))
                     /\ ObjGet(result, JSToString(k))
                            = SelectSeq(gbObjects, HasKey)
           /\ SumLen(result) = Len(gbObjects)

IsNumeral(name) ==
    \/ IsArrayIndex(name)
    \/ Len(name) > 1 /\ Head(name) = "-" /\ IsArrayIndex(Tail(name))

NumeralValue(name) ==
    IF Head(name) = "-" THEN 0 - ParseDigits(Tail(name), 0)
    ELSE ParseDigits(name, 0)

\* a comes before b in ascending order: by the string form, or by the
\* number when both are numerals, or because b is undefined, which the
\* default comparison puts last.
KeyAscending(a, b) ==
    \/ StringLess(a, b)
    \/ IsNumeral(a) /\ IsNumeral(b) /\ NumeralValue(a) < NumeralValue(b)
    \/ b = JSToString(Undefined) /\ a # b

\* C2: the keys of the result are enumerated in ascending sorted order,
\* whatever the order in which they first occur in the input.
GroupByKeysAscending ==
    gbResult.done =>
        LET keys == OwnKeys(gbResult.value)
        IN \A i, j \in 1..Len(keys) : i < j => KeyAscending(keys[i], keys[j])

-----------------------------------------------------------------------------
(* Properties of the page.                                                 *)

\* The words of a sequence of results.
WordsOf(results) == [i \in 1..Len(results) |-> results[i].word]

\* The <li> nodes shown in #word_output.
ShownItems == ListItems(wordOutput)

\* items show exactly the words ws, in order, each followed by a space.
ItemsShow(items, ws) ==
    /\ Len(items) = Len(ws)
    /\ \A i \in 1..Len(ws) : items[i].html = ws[i] \o " "

RECURSIVE CommaList(_)
CommaList(ws) ==
    IF Len(ws) = 1 THEN ws[1] ELSE ws[1] \o ", " \o CommaList(Tail(ws))

\* C3: the saved-words display is "(none)" until a word is saved, and from
\* then on the saved words in save order, duplicates kept, separated by
\* ", ".
SavedWordsDisplayed ==
    savedWords = IF savedWordsArray = <<>> THEN "(none)"
                 ELSE CommaList(savedWordsArray)

SavedTwiceWitness ==
    /\ savedWordsArray = <<"light", "light">>
    /\ savedWords = "light, light"

HeadingOf(callback, value) ==
    IF callback = "showRhymes"
    THEN "<h2>Words that rhyme with " \o Text(value) \o "<h2>"
    ELSE "<h2>Words with a similar meaning to " \o Text(value) \o "<h2>"

\* The words of a sequence, as a bag.
RECURSIVE BagOfSeq(_)
BagOfSeq(ws) ==
    IF ws = <<>> THEN EmptyBag ELSE SetToBag({Head(ws)}) (+) BagOfSeq(Tail(ws))

ItemWordBag(items) ==
    BagOfSeq([i \in 1..Len(items) |-> items[i].html])

\* #word_output holds the render of the response sh: the indicator for an
\* empty one, and otherwise the heading of its renderer and its words, one
\* item each (in the order of the response for similar meanings).
ShowsRenderOf(sh) ==
    IF sh.data = <<>>
    THEN wordOutput.html = "(no results)" /\ ShownItems = <<>>
    ELSE /\ \E value \in InputValues :
                wordOutput.html = HeadingOf(sh.callback, value)
         /\ ItemWordBag(ShownItems)
                = BagOfSeq([i \in 1..Len(sh.data) |-> sh.data[i].word \o " "])
         /\ sh.callback = "showSynonyms" => ItemsShow(ShownItems, WordsOf(sh.data))

\* C5: once every request made has resolved, none having failed, the
\* results display holds the render of the response that resolved last.
LastResponseWins ==
    (pending = EmptyBag /\ errors = 0 /\ wordOutput # Blank) =>
        shown # NotShown /\ ShowsRenderOf(shown)

RacedResponseWitness ==
    /\ pending = EmptyBag
    /\ errors = 0
    /\ shown.raced
    /\ shown.data # <<>>

\* The numSyllables values of a response.
CountsOf(data) == {data[i].numSyllables : i \in 1..Len(data)}

\* Syllable count a comes before b: a smaller number first, a missing
\* count last.
CountBefore(a, b) ==
    \/ a.t = "number" /\ b.t = "number" /\ a.n < b.n
    \/ a.t = "number" /\ b.t = "undefined"

\* C6: a non-empty rhyme response is shown as one section per distinct
\* syllable count, in ascending order of the counts, each section headed by
\* its count and listing exactly the words of that count in the order of
\* the response.
RhymesShownBySyllables ==
    (shown.callback = "showRhymes" /\ shown.data # <<>>) =>
        LET data == shown.data
            nodes == wordOutput.children[1].children
            n == Cardinality(CountsOf(data))
            CountShown(s) ==
                CHOOSE c \in CountsOf(data) :
                    nodes[2 * s - 1].html
                        = "Syllables: " \o Text(JSToString(c))
        IN /\ Len(wordOutput.children) = 1
           /\ Len(nodes) = 2 * n
           /\ \A s \in 1..n :
                  /\ nodes[2 * s - 1].tag = "h3"
                  /\ \E c \in CountsOf(data) :
                         nodes[2 * s - 1].html
                             = "Syllables: " \o Text(JSToString(c))
                  /\ LET HasCount(r) == r.numSyllables = CountShown(s)
                     IN ItemsShow(nodes[2 * s].children,
                                  WordsOf(SelectSeq(data, HasCount)))
           /\ \A s, t \in 1..n :
                  s < t => CountBefore(CountShown(s), CountShown(t))

LightBrightDelightWitness ==
    /\ shown.callback = "showRhymes"
    /\ WordsOf(shown.data) = <<"light", "bright", "delight">>
    /\ Len(wordOutput.children) = 1
    /\ LET nodes == wordOutput.children[1].children
       IN /\ Len(nodes) = 4
          /\ nodes[1].html = "Syllables: 1"
          /\ ItemsShow(nodes[2].children, <<"light", "bright">>)
          /\ nodes[3].html = "Syllables: 2"
          /\ ItemsShow(nodes[4].children, <<"delight">>)

\* C7: after either renderer has run on an empty response, the results
\* display is the "(no results)" indicator alone, with no save button,
\* whatever it showed before.
EmptyResponseShowsNoResults ==
    (shown # NotShown /\ shown.data = <<>>) =>
        /\ wordOutput.html = "(no results)"
        /\ wordOutput.children = <<>>
        /\ ShownItems = <<>>

EmptySynonymsOverRenderWitness ==
    /\ shown.callback = "showSynonyms"
    /\ shown.data = <<>>
    /\ shown.raced
    /\ wordOutput.html = "(no results)"

\* C8: a click on the save button of any item shown appends exactly the
\* word of that item to the saved words.
SaveButtonSavesItsWord ==
    \A j \in 1..Len(ShownItems) :
        LET item == ShownItems[j]
            after == addToSavedWords(ClickListener(item.children[1]))
            n == Len(savedWordsArray)
        IN /\ Len(item.children) = 1
           /\ Len(after.savedWordsArray) = n + 1
           /\ SubSeq(after.savedWordsArray, 1, n) = savedWordsArray
           /\ item.html = after.savedWordsArray[n + 1] \o " "

SavedEarlierItemWitness ==
    /\ Len(ShownItems) > 1
    /\ savedWordsArray # <<>>
    /\ ShownItems[1].html = savedWordsArray[Len(savedWordsArray)] \o " "
    /\ word # savedWordsArray[Len(savedWordsArray)]

\* C9: the saved-words list is empty when the page loads, and every step
\* either leaves the list and its display as they are or appends one word
\* to the list; a step that appends is a save: it makes no request,
\* resolves none, logs no failure and leaves the results display alone.
SavedWordsAppendOnly ==
    /\ savedWordsArray = <<>>
    /\ [][\/ UNCHANGED <<savedWordsArray, savedWords>>
          \/ /\ Len(savedWordsArray') = Len(savedWordsArray) + 1
             /\ SubSeq(savedWordsArray', 1, Len(savedWordsArray))
                    = savedWordsArray
             /\ UNCHANGED <<wordInput, wordOutput, word, pending, errors,
                            shown>>]_vars

SavedKeptThroughFailure ==
    /\ savedWordsArray # <<>>
    /\ errors > 0
    /\ wordOutput.html = "<h2>...loading<h2>"

UrlOf(callback, value) ==
    "https://api.datamuse.com/words?"
        \o (IF callback = "showRhymes" THEN "rel_rhy=" ELSE "ml=")
        \o UrlEncode(value)

\* C10: the word named in the heading of a non-empty render is the word the
\* request of that render was made for.
HeadingNamesQueriedWord ==
    (shown # NotShown /\ shown.data # <<>>) =>
        \E value \in InputValues :
            /\ wordOutput.html = HeadingOf(shown.callback, value)
            /\ shown.url = UrlOf(shown.callback, value)

====
